---- MODULE Spec2Model ----
(***************************************************************************)
(* Model of the sql-domain-filter crate: the Sql fragment builder of       *)
(* src/src/sql.rs (new, append, query, params, formatted, finalize,        *)
(* identifier) and the operator table of src/src/lib.rs (sql_operators).   *)
(*                                                                         *)
(* A text (String / &str) is a sequence of one-character strings.  A       *)
(* parameter (&dyn Any) is an opaque reference, written as the name of the *)
(* value it points to.  An Option is a record with a boolean field `some`. *)
(***************************************************************************)
EXTENDS Integers, Sequences, FiniteSets, TLC

VARIABLES
    sql,    \* the Sql value being built: [query, fragment, params]
    call,   \* the last builder call made and its arguments
    ret     \* the value returned by the last associated/free function call

vars == <<sql, call, ret>>

(***************************************************************************)
(* Bounds of the model.                                                    *)
(***************************************************************************)
MaxLen == 1          \* longest text handed to Sql::new
MaxParams == 1       \* longest parameter slice handed to Sql::new
MaxFragLen == 5      \* longest accumulated fragment
MaxTotalParams == 2  \* longest accumulated parameter list
MarkerRun == 10      \* markers in the one long text (two-digit references)
MaxNameLen == 4      \* longest name handed to Sql::identifier

BoundedSeq(S, n) == UNION {[1..k -> S] : k \in 0..n}

\* characters of the texts handed to Sql::new
Chars == {"?", "a"}
\* characters of the names handed to Sql::identifier
NameChars == {"f", "o", "\""}
\* the values the parameters refer to
Values == {"name", "one"}

None == [some |-> FALSE]
Some(v) == [some |-> TRUE, v |-> v]

ManyMarkers == [i \in 1..MarkerRun |-> "?"]
Texts == BoundedSeq(Chars, MaxLen) \cup {ManyMarkers}
ManyParams == [i \in 1..MarkerRun |-> IF i % 2 = 1 THEN "name" ELSE "one"]
ParamLists == BoundedSeq(Values, MaxParams) \cup {ManyParams}
ParamOptions == {None} \cup {Some(p) : p \in ParamLists}
Names == BoundedSeq(NameChars, MaxNameLen)

(***************************************************************************)
(* src/src/sql.rs                                                          *)
(***************************************************************************)
\* format!("{idx}") of a positive integer: its decimal digits
Digit(d) == CASE d = 0 -> "0" [] d = 1 -> "1" [] d = 2 -> "2" [] d = 3 -> "3"
              [] d = 4 -> "4" [] d = 5 -> "5" [] d = 6 -> "6" [] d = 7 -> "7"
              [] d = 8 -> "8" [] d = 9 -> "9"

RECURSIVE format_idx(_)
format_idx(idx) ==
    IF idx < 10 THEN <<Digit(idx)>>
    ELSE format_idx(idx \div 10) \o <<Digit(idx % 10)>>

\* Sql::new, were it to take every params argument for None
new_ignore_params(fragment, params) ==
    [query |-> <<>>, fragment |-> fragment, params |-> <<>>]

\* Sql::new
new(fragment, params) ==
    LET vec == IF params.some THEN params.v ELSE <<>>
    IN  [query |-> <<>>, fragment |-> fragment, params |-> vec]

\* Sql::query, Sql::params, Sql::formatted
query(self) == self.fragment
params(self) == self.params
formatted(self) == self.query

\* Sql::append, were it to put the other's parameters first
append_params_first(self, other) ==
    [self EXCEPT !.fragment = Append(self.fragment, " ") \o other.fragment,
                 !.params = params(other) \o self.params]

\* Sql::append, were it to leave the space out after an empty text
append_smart_space(self, other) ==
    [self EXCEPT !.fragment = IF self.fragment = <<>> THEN other.fragment
                              ELSE Append(self.fragment, " ") \o other.fragment,
                 !.params = self.params \o params(other)]

\* Sql::append, were it to join the two query fields as well
append_merge_query(self, other) ==
    [self EXCEPT !.fragment = Append(self.fragment, " ") \o other.fragment,
                 !.params = self.params \o params(other),
                 !.query = self.query \o other.query]

\* Sql::append, were it to leave the other's parameters behind
append_drop_params(self, other) ==
    [self EXCEPT !.fragment = Append(self.fragment, " ") \o other.fragment]

\* Sql::append
append(self, other) ==
    LET moved == params(other)
        pushed == Append(self.fragment, " ")
    IN  [self EXCEPT !.fragment = pushed \o other.fragment,
                     !.params = self.params \o moved]

\* the loop of Sql::finalize from character i on, with the running idx and query
RECURSIVE finalize_loop(_, _, _, _)
finalize_loop(fragment, i, idx, q) ==
    IF i > Len(fragment) THEN q
    ELSE IF fragment[i] = "?"
         THEN finalize_loop(fragment, i + 1, idx + 1, q \o <<"$">> \o format_idx(idx))
         ELSE finalize_loop(fragment, i + 1, idx, Append(q, fragment[i]))

\* Sql::finalize, were idx to start at 0
finalize_from_zero(self) ==
    [self EXCEPT !.query = finalize_loop(self.fragment, 1, 0, <<>>)]

\* Sql::finalize, were it to extend self.query instead of a new String
finalize_accumulate(self) ==
    [self EXCEPT !.query = finalize_loop(self.fragment, 1, 1, self.query)]

\* Sql::finalize, were it to do nothing when markers and parameters differ
finalize_checked(self) ==
    IF Cardinality({i \in 1..Len(self.fragment) : self.fragment[i] = "?"})
           # Len(self.params)
    THEN self
    ELSE [self EXCEPT !.query = finalize_loop(self.fragment, 1, 1, <<>>)]

\* Sql::finalize
finalize(self) ==
    [self EXCEPT !.query = finalize_loop(self.fragment, 1, 1, <<>>)]

\* every double quote of s written twice
RECURSIVE DoubleQuotes(_)
DoubleQuotes(s) ==
    IF s = <<>> THEN <<>>
    ELSE (IF Head(s) = "\"" THEN <<"\"", "\"">> ELSE <<Head(s)>>)
         \o DoubleQuotes(Tail(s))

\* Sql::identifier, were it to double the embedded quotes
identifier_escaped(arg) == <<"\"">> \o DoubleQuotes(arg) \o <<"\"">>

\* Sql::identifier
identifier(arg) == <<"\"">> \o arg \o <<"\"">>

(***************************************************************************)
(* src/src/lib.rs                                                          *)
(***************************************************************************)
\* TERM_OPERATORS
TERM_OPERATORS ==
    {"=", "!=", "<=", "<", ">", ">=", "=?", "=like", "=ilike", "like",
     "not like", "ilike", "not ilike", "in", "not in", "child_of",
     "parent_of", "any", "not any"}

\* the (key, text) pairs handed to HashMap::from in sql_operators
OperatorEntries ==
    { <<"=", <<"=">>>>,
      <<"!=", <<"!", "=">>>>,
      <<"<=", <<"<", "=">>>>,
      <<"<", <<"<">>>>,
      <<">", <<">">>>>,
      <<">=", <<">", "=">>>>,
      <<"in", <<"I", "N">>>>,
      <<"not in", <<"N", "O", "T", " ", "I", "N">>>>,
      <<"=like", <<"L", "I", "K", "E">>>>,
      <<"=ilike", <<"I", "L", "I", "K", "E">>>>,
      <<"like", <<"L", "I", "K", "E">>>>,
      <<"ilike", <<"I", "L", "I", "K", "E">>>>,
      <<"not like", <<"N", "O", "T", " ", "L", "I", "K", "E">>>>,
      <<"not ilike", <<"N", "O", "T", " ", "I", "L", "I", "K", "E">>>> }

\* sql_operators: the map built from the entries, each value Sql::new(text, None)
sql_operators ==
    [key \in {e[1] : e \in OperatorEntries} |->
        new((CHOOSE e \in OperatorEntries : e[1] = key)[2], None)]

\* tokens that differ from a key only in letter case, with the key they fold to
CaseVariants == { <<"IN", "in">>, <<"NOT IN", "not in">>, <<"Not In", "not in">>,
                  <<"LIKE", "like">>, <<"=ILIKE", "=ilike">> }

\* the tokens looked up
Tokens ==
    TERM_OPERATORS \cup {v[1] : v \in CaseVariants}
        \cup {"unknown_token", "", "not  in", " in", "==", "!", "|", "&"}

\* the lookup, were it to fold letter case first
lookup_ignore_case(token) ==
    LET key == IF \E v \in CaseVariants : v[1] = token
               THEN (CHOOSE v \in CaseVariants : v[1] = token)[2]
               ELSE token
    IN  IF key \in DOMAIN sql_operators THEN Some(sql_operators[key]) ELSE None

\* a lookup in the map: HashMap::get
lookup(token) ==
    IF token \in DOMAIN sql_operators THEN Some(sql_operators[token]) ELSE None

(***************************************************************************)
(* The builder as a state machine: one action per call.                    *)
(***************************************************************************)
NoCall == [fn |-> "none"]

Init ==
    /\ sql = new(<<>>, None)
    /\ call = [op |-> "new", fragment |-> <<>>, params |-> None]
    /\ ret = NoCall

\* sql = Sql::new(t, p)
SqlNew(t, p) ==
    /\ sql' = new(t, p)
    /\ call' = [op |-> "new", fragment |-> t, params |-> p]
    /\ UNCHANGED ret

\* sql = sql.append(other), other being Sql::new(t, p), finalized first when fin
SqlAppend(t, p, fin) ==
    LET made == new(t, p)
        other == IF fin THEN finalize(made) ELSE made
    IN  /\ Len(sql.fragment) + 1 + Len(other.fragment) <= MaxFragLen
        /\ Len(sql.params) + Len(other.params) <= MaxTotalParams
        /\ sql' = append(sql, other)
        /\ call' = [op |-> "append", other |-> other]
        /\ UNCHANGED ret

\* sql = sql.finalize()
SqlFinalize ==
    /\ sql' = finalize(sql)
    /\ call' = [op |-> "finalize"]
    /\ UNCHANGED ret

\* Sql::identifier(name)
SqlIdentifier(name) ==
    /\ ret' = [fn |-> "identifier", name |-> name, out |-> identifier(name)]
    /\ UNCHANGED <<sql, call>>

\* sql_operators().get(token)
Lookup(token) ==
    /\ ret' = [fn |-> "get", token |-> token, out |-> lookup(token)]
    /\ UNCHANGED <<sql, call>>

Next ==
    \/ \E t \in Texts, p \in ParamOptions : SqlNew(t, p)
    \/ \E t \in Texts, p \in ParamOptions, fin \in BOOLEAN : SqlAppend(t, p, fin)
    \/ SqlFinalize

Spec == Init /\ [][Next]_vars

\* the markers of a text
MarkerCount(text) == Cardinality({i \in 1..Len(text) : text[i] = "?"})

\* the calls of new whose text has as many markers as there are parameters
Balanced(t, p) == MarkerCount(t) = Len(new(t, p).params)

NextBalanced ==
    \/ \E t \in Texts, p \in ParamOptions : Balanced(t, p) /\ SqlNew(t, p)
    \/ \E t \in Texts, p \in ParamOptions, fin \in BOOLEAN :
          Balanced(t, p) /\ SqlAppend(t, p, fin)
    \/ SqlFinalize

SpecBalanced == Init /\ [][NextBalanced]_vars

NextStatic ==
    \/ \E name \in Names : SqlIdentifier(name)
    \/ \E token \in Tokens : Lookup(token)

SpecStatic == Init /\ [][NextStatic]_vars

(***************************************************************************)
(* What the properties below compare the code against.                     *)
(***************************************************************************)
DigitChars == <<"0", "1", "2", "3", "4", "5", "6", "7", "8", "9">>

\* the decimal numeral of k, for 0 <= k <= 99
Numeral(k) ==
    IF k < 10 THEN <<DigitChars[k + 1]>>
    ELSE <<DigitChars[(k \div 10) + 1], DigitChars[(k % 10) + 1]>>

\* how many markers stand at or before position i of a text
Rank(text, i) == Cardinality({j \in 1..i : text[j] = "?"})

\* what position i of a text becomes: "$k" for the k-th marker, else itself
Piece(text, i) ==
    IF text[i] = "?" THEN <<"$">> \o Numeral(Rank(text, i)) ELSE <<text[i]>>

RECURSIVE RewrittenUpTo(_, _)
RewrittenUpTo(text, n) ==
    IF n = 0 THEN <<>> ELSE RewrittenUpTo(text, n - 1) \o Piece(text, n)

\* a text with its k-th marker replaced by "$k", everything else in place
Rewritten(text) == RewrittenUpTo(text, Len(text))

DollarCount(text) == Cardinality({i \in 1..Len(text) : text[i] = "$"})

\* the closed set of operator tokens and the SQL text of each
CanonicalOperator(token) ==
    CASE token = "=" -> <<"=">>
      [] token = "!=" -> <<"!", "=">>
      [] token = "<=" -> <<"<", "=">>
      [] token = "<" -> <<"<">>
      [] token = ">" -> <<">">>
      [] token = ">=" -> <<">", "=">>
      [] token = "in" -> <<"I", "N">>
      [] token = "not in" -> <<"N", "O", "T", " ", "I", "N">>
      [] token \in {"=like", "like"} -> <<"L", "I", "K", "E">>
      [] token \in {"=ilike", "ilike"} -> <<"I", "L", "I", "K", "E">>
      [] token = "not like" -> <<"N", "O", "T", " ", "L", "I", "K", "E">>
      [] token = "not ilike" -> <<"N", "O", "T", " ", "I", "L", "I", "K", "E">>

OperatorTokens ==
    {"=", "!=", "<=", "<", ">", ">=", "in", "not in", "=like", "=ilike",
     "like", "ilike", "not like", "not ilike"}

(***************************************************************************)
(* Properties.                                                             *)
(***************************************************************************)

\* C1: after A.append(B) the parameters are A's parameters followed by B's:
\* the two lengths added, A's elements first and in order, then B's in order.
C1_AppendParams ==
    [][call'.op = "append" =>
         LET a == params(sql)
             b == params(call'.other)
             r == params(sql')
         IN  /\ Len(r) = Len(a) + Len(b)
             /\ \A k \in 1..Len(a) : r[k] = a[k]
             /\ \A k \in 1..Len(b) : r[Len(a) + k] = b[k]]_vars

\* a chain of two appends has put two different parameters in call order
C1_Witness ==
    /\ call.op = "append"
    /\ Len(params(call.other)) = 1
    /\ Len(params(sql)) = 2
    /\ params(sql)[1] # params(sql)[2]
    /\ Cardinality({i \in 1..Len(query(sql)) : query(sql)[i] = " "}) = 2

\* C2: after A.append(B) the text is A's text, one space, then B's text, and
\* nothing else, whether or not either text is empty.
C2_AppendText ==
    [][call'.op = "append" =>
         LET a == query(sql)
             b == query(call'.other)
             r == query(sql')
         IN  /\ Len(r) = Len(a) + 1 + Len(b)
             /\ \A k \in 1..Len(a) : r[k] = a[k]
             /\ r[Len(a) + 1] = " "
             /\ \A k \in 1..Len(b) : r[Len(a) + 1 + k] = b[k]]_vars

\* an append onto an empty text has happened
C2_Witness ==
    /\ call.op = "append"
    /\ query(sql) = <<" ", "?">>
    /\ query(call.other) = <<"?">>

\* C3: after finalize, formatted() is the text with its k-th marker replaced
\* by "$" and the decimal numeral of k, counting from 1, and every other
\* character unchanged in place.
C3_FinalizeNumbers ==
    call.op = "finalize" => formatted(sql) = Rewritten(query(sql))

\* the long run of markers has been finalized, up to a two-digit reference
C3_Witness ==
    /\ call.op = "finalize"
    /\ query(sql) = ManyMarkers
    /\ LET f == formatted(sql)
       IN  Len(f) >= 3 /\ SubSeq(f, Len(f) - 2, Len(f)) = <<"$">> \o Numeral(MarkerRun)

\* C4: new(t, p) has query() = t as given, params() = p in order (empty when
\* p is absent) and an empty formatted().
C4_New ==
    call.op = "new" =>
        /\ query(sql) = call.fragment
        /\ params(sql) = (IF call.params.some THEN call.params.v ELSE <<>>)
        /\ formatted(sql) = <<>>

\* a fragment was made with a marker-free text and one parameter
C4_Witness ==
    /\ call.op = "new"
    /\ call.fragment = <<"a">>
    /\ call.params.some
    /\ params(sql) = <<"one">>

\* C5: a lookup of one of the fourteen operator tokens yields that token's SQL
\* text, and a lookup of any other token yields no match.
C5_Lookup ==
    ret.fn = "get" =>
        IF ret.token \in OperatorTokens
        THEN ret.out.some /\ query(ret.out.v) = CanonicalOperator(ret.token)
        ELSE ~ret.out.some

\* a token differing from a key only in case was looked up and not found
C5_Witness ==
    /\ ret.fn = "get"
    /\ ret.token = "NOT IN"
    /\ ~ret.out.some

\* C6: identifier(name) is a double quote, the name as given, a double quote.
C6_Identifier ==
    ret.fn = "identifier" =>
        LET n == ret.name
            out == ret.out
        IN  /\ Len(out) = Len(n) + 2
            /\ out[1] = "\""
            /\ out[Len(out)] = "\""
            /\ \A k \in 1..Len(n) : out[k + 1] = n[k]

\* a name with an embedded quote was quoted
C6_Witness ==
    /\ ret.fn = "identifier"
    /\ ret.name = <<"f", "\"", "o">>

\* C7: finalizing a finalized fragment again changes none of formatted(),
\* query() and params().
C7_FinalizeIdempotent ==
    call.op = "finalize" =>
        LET again == finalize(sql)
        IN  /\ formatted(again) = formatted(sql)
            /\ query(again) = query(sql)
            /\ params(again) = params(sql)

\* a fragment with a marker has been finalized
C7_Witness ==
    /\ call.op = "finalize"
    /\ MarkerCount(query(sql)) = 2
    /\ formatted(sql) # <<>>

\* C8 as stated: formatted() is always empty or the rewrite of the current text.
C8_FormattedCurrent ==
    formatted(sql) = <<>> \/ formatted(sql) = Rewritten(query(sql))

\* C8 amended: formatted() is always the rewrite of a prefix of the current
\* text (the text as it stood at the last finalize; the empty prefix before
\* any finalize), and of the whole text right after finalize.
C8_FormattedPrefix ==
    /\ \E n \in 0..Len(query(sql)) :
           formatted(sql) = Rewritten(SubSeq(query(sql), 1, n))
    /\ call.op = "finalize" => formatted(sql) = Rewritten(query(sql))

\* an append after finalize has left formatted() behind the text
C8_Witness ==
    /\ call.op = "append"
    /\ formatted(sql) # <<>>
    /\ formatted(sql) # Rewritten(query(sql))

\* C9: finalize of a fragment whose markers and parameters differ in number
\* still numbers all m markers $1..$m and leaves text and parameters alone.
C9_MismatchSilent ==
    [][(call'.op = "finalize" /\ MarkerCount(query(sql)) # Len(params(sql))) =>
         /\ params(sql') = params(sql)
         /\ query(sql') = query(sql)
         /\ formatted(sql') = Rewritten(query(sql))
         /\ DollarCount(formatted(sql')) = MarkerCount(query(sql))]_vars

\* a fragment with two markers and no parameter has been finalized
C9_Witness ==
    /\ call.op = "finalize"
    /\ MarkerCount(query(sql)) = 2
    /\ params(sql) = <<>>
    /\ DollarCount(formatted(sql)) = 2

====
